---- MODULE Spec2Model ----
(***************************************************************************)
(* benchgen: generator of a SystemVerilog test bench from a JSON module    *)
(* description (src/benchgen.py).                                          *)
(*                                                                         *)
(* The generator is modelled as the straight-line program of the           *)
(* __main__ block, one action per statement group, with the loop of        *)
(* generate_bit_slice_indices unrolled one field per step.  Text is a      *)
(* sequence of pieces, one piece per string the code appends; numbers are  *)
(* rendered digit by digit as str.format renders them.                     *)
(*                                                                         *)
(* The emitted test bench (template_bench) is modelled as a second state   *)
(* machine: the simulation of its two initial blocks.                      *)
(***************************************************************************)
EXTENDS Integers, Sequences, FiniteSets, TLC

(***************************************************************************)
(* Bounds of the input documents and of the simulated vector file.         *)
(***************************************************************************)
MaxFields == 3

MaxHi == 8

MaxErrors == 2

\* Values of idx_lo and idx_hi the documents draw from.
LoValues == {0, 2}

HiValues == {0, MaxHi - 1, MaxHi}

Directions == {"input", "output"}

\* Which of the two direction keys the parameter objects carry.
KeyStyles == {"type", "io_type", "both"}

\* The k-th parameter of a document is named FieldNames[k].
FieldNames == <<"a", "b", "sum", "cout", "q">>

VARIABLES
    j,                      \* the parsed input document (json.loads)
    pc,                     \* position in __main__
    exc,                    \* exception that ended the run, or "none"
    outfile,                \* text printed to args.outfile: <<>> before print
    parameter_hex_widths,
    vec_hi_idx,
    vec_format_str,
    top,                    \* cursor of generate_bit_slice_indices
    out,                    \* result list of generate_bit_slice_indices
    vec_bit_slices,
    inputs,
    outputs,
    vec_format_params,
    input_decls,
    initial_begin_inputs,
    dut_stimulate_block,
    output_check_expr,
    bpc,                    \* position in the test bench's initial block
    i,                      \* logic [31:0] i
    error,                  \* logic [31:0] error
    enable,                 \* logic [3:0] enable
    init_done,              \* the first initial block has run
    summary                 \* what the summary $display printed, or <<>>

genvars == <<j, pc, exc, outfile, parameter_hex_widths, vec_hi_idx,
             vec_format_str, top, out, vec_bit_slices, inputs, outputs,
             vec_format_params, input_decls, initial_begin_inputs,
             dut_stimulate_block, output_check_expr>>

benchvars == <<bpc, init_done, i, error, enable, summary>>

vars == <<genvars, benchvars>>

(***************************************************************************)
(* Utility functions                                                       *)
(***************************************************************************)

\* math.ceil(float(x) / base) for base > 0
CeilDiv(x, base) == -((-x) \div base)

\* Faulty variant of round_to_8: rounds down.
round_to_8_floor(x, base) == base * (x \div base)

round_to_8(x, base) == base * CeilDiv(x, base)

compute_field_bit_width(idx_hi, idx_lo) == (idx_hi + 1) - idx_lo

compute_field_bit_width_hex(idx_hi, idx_lo) ==
    round_to_8(compute_field_bit_width(idx_hi, idx_lo), 4) \div 4

\* "{}".format(n) of an integer: its decimal digits, one piece per character.
Digit(d) == <<"0", "1", "2", "3", "4", "5", "6", "7", "8", "9">>[d + 1]

RECURSIVE NatStr(_)
NatStr(n) == IF n < 10 THEN <<Digit(n)>>
             ELSE NatStr(n \div 10) \o <<Digit(n % 10)>>

IntStr(n) == IF n < 0 THEN <<"-">> \o NatStr(-n) ELSE NatStr(n)

RECURSIVE SumSeq(_)
SumSeq(s) == IF s = <<>> THEN 0 ELSE Head(s) + SumSeq(Tail(s))

\* [x * 4 for x in field_lengths_hex]
HexBits(field_lengths_hex) ==
    [k \in 1..Len(field_lengths_hex) |-> field_lengths_hex[k] * 4]

RECURSIVE format_str_loop(_, _, _)
format_str_loop(field_lengths_hex, k, acc) ==
    IF k > Len(field_lengths_hex) THEN acc
    ELSE format_str_loop(field_lengths_hex, k + 1,
             acc \o <<"_%0">> \o IntStr(field_lengths_hex[k]) \o <<"h">>)

\* Faulty variant of generate_vector_format_str: the loop starts at the second field.
generate_vector_format_str_skip(field_lengths_hex) ==
    format_str_loop(field_lengths_hex, 2, <<"%1h">>)

generate_vector_format_str(field_lengths_hex) ==
    format_str_loop(field_lengths_hex, 1, <<"%1h">>)

\* One iteration of the loop of generate_bit_slice_indices.
slice_out_lo(t, hex_length) == t - hex_length

\* Faulty variant of slice_out_hi: the upper index is one too high.
slice_out_hi_plus(out_lo, width) == out_lo + width

slice_out_hi(out_lo, width) == (out_lo + width) - 1

\* Faulty variant of slice_next_top: the cursor drops by hex digits, not by bits.
slice_next_top_digits(t, hex_length) == t - (hex_length \div 4)

slice_next_top(t, hex_length) == t - hex_length

(***************************************************************************)
(* Code generation functions                                               *)
(***************************************************************************)
Spaces(n) == [k \in 1..n |-> " "]

Indent4 == "    "

Indent8 == "        "

Indent12 == "            "

Indent19 == "                   "

\* v[key] raises KeyError for some element of variables_list
KeyMissing(variables_list, key) ==
    \E k \in 1..Len(variables_list) : key \notin DOMAIN variables_list[k]

\* max([len(v["name"]) for v in variables_list]), variables_list not empty
MaxNameLength(variables_list) ==
    LET lens == { Len(variables_list[k].name) : k \in 1..Len(variables_list) }
    IN  CHOOSE m \in lens : \A n \in lens : n <= m

\* "{:{width}}".format(text): text, then spaces up to width characters
PadTo(text_len, width) ==
    Spaces(IF width > text_len THEN width - text_len ELSE 0)

RECURSIVE format_params_loop(_, _, _)
format_params_loop(slice_index_tuples, k, acc) ==
    IF k > Len(slice_index_tuples) THEN acc
    ELSE LET idx_hi == slice_index_tuples[k][1]
             idx_lo == slice_index_tuples[k][2]
             nl     == IF k - 1 > 0 THEN <<"\n">> ELSE <<>>
             comma  == IF k < Len(slice_index_tuples) THEN <<",">> ELSE <<>>
         IN  format_params_loop(slice_index_tuples, k + 1,
                 acc \o nl \o <<Indent19, "vec[">> \o IntStr(idx_hi) \o <<":">>
                     \o IntStr(idx_lo) \o <<"]">> \o comma)

codegen_format_params(slice_index_tuples) ==
    format_params_loop(slice_index_tuples, 1, <<>>)

\* One loop of codegen_input_decls: a declaration per field of direction dir.
RECURSIVE decls_loop(_, _, _, _, _)
decls_loop(variables_list, dir, suffix, k, acc) ==
    IF k > Len(variables_list) THEN acc
    ELSE LET v == variables_list[k]
         IN  IF v["io_type"] = dir
             THEN decls_loop(variables_list, dir, suffix, k + 1,
                      acc \o <<Indent4, "logic [">> \o IntStr(v.idx_hi) \o <<":">>
                          \o IntStr(v.idx_lo) \o <<"] ", v.name>> \o suffix
                          \o <<";", "\n">>)
             ELSE decls_loop(variables_list, dir, suffix, k + 1, acc)

codegen_input_decls(variables_list) ==
    LET o1 == decls_loop(variables_list, "input", <<>>, 1,
                         <<"\n    // Inputs.\n">>)
        o2 == decls_loop(variables_list, "output", <<>>, 1,
                         o1 \o <<"\n    // Outputs.\n">>)
    IN  decls_loop(variables_list, "output", <<"_e">>, 1,
                   o2 \o <<"\n    // Expected Outputs.\n">>)

RECURSIVE initial_begin_loop(_, _, _, _)
initial_begin_loop(variables_list, max_name_length, k, acc) ==
    IF k > Len(variables_list) THEN acc
    ELSE LET v == variables_list[k]
         IN  IF v["io_type"] = "input"
             THEN initial_begin_loop(variables_list, max_name_length, k + 1,
                      acc \o <<Indent8, v.name>>
                          \o PadTo(Len(v.name), max_name_length)
                          \o <<" = 0;", "\n">>)
             ELSE initial_begin_loop(variables_list, max_name_length, k + 1, acc)

codegen_initial_begin_decls(variables_list) ==
    initial_begin_loop(variables_list, MaxNameLength(variables_list), 1, <<>>)

\* Faulty variant of stimulate_target: an output's own variable is written.
stimulate_target_plain(v) ==
    IF v["io_type"] \in {"input", "output"} THEN <<v.name>> ELSE <<>>

\* The variable an assignment of the stimulate block writes.
stimulate_target(v) ==
    IF v["io_type"] = "input" THEN <<v.name>>
    ELSE IF v["io_type"] = "output" THEN <<v.name, "_e">>
    ELSE <<>>

\* zip(variables_list, bit_slices_list)
ZipLen(a, b) == IF Len(a) < Len(b) THEN Len(a) ELSE Len(b)

RECURSIVE stimulate_loop(_, _, _, _, _)
stimulate_loop(variables_list, bit_slices_list, max_name_length, k, acc) ==
    IF k > ZipLen(variables_list, bit_slices_list) THEN acc
    ELSE LET v      == variables_list[k]
             idx_hi == bit_slices_list[k][1]
             idx_lo == bit_slices_list[k][2]
             target == stimulate_target(v)
             tlen   == Len(v.name) + (IF Len(target) = 2 THEN 2 ELSE 0)
             assign == IF target = <<>> THEN <<>>
                       ELSE target \o PadTo(tlen, max_name_length)
                            \o <<" = current[">> \o IntStr(idx_hi) \o <<":">>
                            \o IntStr(idx_lo) \o <<"];">>
         IN  stimulate_loop(variables_list, bit_slices_list, max_name_length,
                            k + 1, acc \o <<Indent12>> \o assign \o <<"\n">>)

codegen_dut_stimulate_block(variables_list, bit_slices_list) ==
    stimulate_loop(variables_list, bit_slices_list,
                   MaxNameLength(variables_list) + 2, 1, <<>>)

\* The loop of codegen_output_check_expr; n is the code's counter i.
RECURSIVE check_expr_loop(_, _, _, _)
check_expr_loop(variables_list, k, n, acc) ==
    IF k > Len(variables_list) THEN acc
    ELSE LET v    == variables_list[k]
             acc1 == IF n > 0 THEN acc \o <<" || ">> ELSE acc
         IN  IF v["io_type"] = "output"
             THEN check_expr_loop(variables_list, k + 1, n + 1,
                                  acc1 \o <<v.name, " != ", v.name, "_e">>)
             ELSE check_expr_loop(variables_list, k + 1, n, acc1)

codegen_output_check_expr(variables_list) ==
    check_expr_loop(variables_list, 1, 0, <<>>)

\* ", ".join(names)
RECURSIVE JoinNames(_, _)
JoinNames(names, sep) ==
    IF names = <<>> THEN <<>>
    ELSE IF Len(names) = 1 THEN <<names[1]>>
    ELSE <<names[1], sep>> \o JoinNames(Tail(names), sep)

(***************************************************************************)
(* Input documents                                                         *)
(***************************************************************************)
Param(name, dir, hi, lo, style) ==
    CASE style = "type" ->
           [name |-> name, type |-> dir, idx_hi |-> hi, idx_lo |-> lo]
      [] style = "io_type" ->
           [name |-> name, io_type |-> dir, idx_hi |-> hi, idx_lo |-> lo]
      [] style = "both" ->
           [name |-> name, type |-> dir, io_type |-> dir,
            idx_hi |-> hi, idx_lo |-> lo]

\* Documents of n parameters whose geometry is drawn from geoms.
DocumentsOf(n, geoms, styles) ==
    { [module_name |-> "adder",
       parameters  |-> [k \in 1..n |->
                          Param(FieldNames[k], d[k], g[k][1], g[k][2], st)]] :
      d \in [1..n -> Directions], g \in [1..n -> geoms], st \in styles }

AllGeometry == HiValues \X LoValues

ValidGeometry == { g \in AllGeometry : g[1] >= g[2] }

parameters == j.parameters

NumFields == Len(parameters)

GenInitRest ==
    /\ pc = "start"
    /\ exc = "none"
    /\ outfile = <<>>
    /\ parameter_hex_widths = <<>>
    /\ vec_hi_idx = 0
    /\ vec_format_str = <<>>
    /\ top = 0
    /\ out = <<>>
    /\ vec_bit_slices = <<>>
    /\ inputs = <<>>
    /\ outputs = <<>>
    /\ vec_format_params = <<>>
    /\ input_decls = <<>>
    /\ initial_begin_inputs = <<>>
    /\ dut_stimulate_block = <<>>
    /\ output_check_expr = <<>>

\* A 32-bit test bench variable nothing has assigned yet: all x.
XVal == 0 - 1

\* The test bench before its simulation starts.
BenchIdle ==
    /\ bpc = "idle"
    /\ init_done = FALSE
    /\ i = XVal
    /\ error = XVal
    /\ enable = "xxxx"
    /\ summary = <<>>

\* Documents of valid modules: at least one parameter, idx_hi >= idx_lo >= 0,
\* with either or both of the direction keys.
Init ==
    /\ j \in UNION { DocumentsOf(n, ValidGeometry, KeyStyles) : n \in 1..MaxFields }
    /\ GenInitRest
    /\ BenchIdle

(***************************************************************************)
(* __main__                                                                *)
(***************************************************************************)
Raise(e) ==
    /\ pc' = "error"
    /\ exc' = e

\* lines 242-249
MainWidths ==
    /\ pc = "start"
    /\ parameter_hex_widths' =
           [k \in 1..NumFields |->
              compute_field_bit_width_hex(parameters[k].idx_hi, parameters[k].idx_lo)]
    /\ pc' = "vector"
    /\ UNCHANGED <<j, exc, outfile, vec_hi_idx, vec_format_str, top, out,
                   vec_bit_slices, inputs, outputs, vec_format_params,
                   input_decls, initial_begin_inputs, dut_stimulate_block,
                   output_check_expr, benchvars>>

\* lines 251-253
MainVector ==
    /\ pc = "vector"
    /\ vec_hi_idx' = (SumSeq(HexBits(parameter_hex_widths)) + 4) - 1
    /\ vec_format_str' = generate_vector_format_str(parameter_hex_widths)
    /\ pc' = "slices_enter"
    /\ UNCHANGED <<j, exc, outfile, parameter_hex_widths, top, out,
                   vec_bit_slices, inputs, outputs, vec_format_params,
                   input_decls, initial_begin_inputs, dut_stimulate_block,
                   output_check_expr, benchvars>>

\* line 254, lines 128-130
BitSlicesEnter ==
    /\ pc = "slices_enter"
    /\ out' = <<>>
    /\ top' = SumSeq(HexBits(parameter_hex_widths))
    /\ pc' = "slices_loop"
    /\ UNCHANGED <<j, exc, outfile, parameter_hex_widths, vec_hi_idx,
                   vec_format_str, vec_bit_slices, inputs, outputs,
                   vec_format_params, input_decls, initial_begin_inputs,
                   dut_stimulate_block, output_check_expr, benchvars>>

\* lines 131-137: the iteration for field Len(out) + 1
BitSlicesStep ==
    /\ pc = "slices_loop"
    /\ Len(out) < NumFields
    /\ LET k          == Len(out) + 1
           hex_length == HexBits(parameter_hex_widths)[k]
           width      == compute_field_bit_width(parameters[k].idx_hi,
                                                 parameters[k].idx_lo)
           out_lo     == slice_out_lo(top, hex_length)
           out_hi     == slice_out_hi(out_lo, width)
       IN  /\ out' = Append(out, <<out_hi, out_lo>>)
           /\ top' = slice_next_top(top, hex_length)
    /\ UNCHANGED <<j, pc, exc, outfile, parameter_hex_widths, vec_hi_idx,
                   vec_format_str, vec_bit_slices, inputs, outputs,
                   vec_format_params, input_decls, initial_begin_inputs,
                   dut_stimulate_block, output_check_expr, benchvars>>

\* line 138, line 254
BitSlicesReturn ==
    /\ pc = "slices_loop"
    /\ Len(out) = NumFields
    /\ vec_bit_slices' = out
    /\ pc' = "filter"
    /\ UNCHANGED <<j, exc, outfile, parameter_hex_widths, vec_hi_idx,
                   vec_format_str, top, out, inputs, outputs,
                   vec_format_params, input_decls, initial_begin_inputs,
                   dut_stimulate_block, output_check_expr, benchvars>>

\* lines 256-260
MainFilter ==
    /\ pc = "filter"
    /\ IF KeyMissing(parameters, "type")
       THEN /\ Raise("KeyError")
            /\ UNCHANGED <<inputs, outputs>>
       ELSE /\ inputs' = SelectSeq(parameters, LAMBDA x : x["type"] = "input")
            /\ outputs' = SelectSeq(parameters, LAMBDA x : x["type"] = "output")
            /\ pc' = "format_params"
            /\ exc' = exc
    /\ UNCHANGED <<j, outfile, parameter_hex_widths, vec_hi_idx,
                   vec_format_str, top, out, vec_bit_slices,
                   vec_format_params, input_decls, initial_begin_inputs,
                   dut_stimulate_block, output_check_expr, benchvars>>

\* Faulty variant of format_param_slices: the enable slice is left out.
format_param_slices_no_enable == vec_bit_slices

\* The slices handed to codegen_format_params, line 267.
format_param_slices ==
    <<<<vec_hi_idx, vec_hi_idx - 3>>>> \o vec_bit_slices

\* line 267
MainFormatParams ==
    /\ pc = "format_params"
    /\ vec_format_params' = codegen_format_params(format_param_slices)
    /\ pc' = "input_decls"
    /\ UNCHANGED <<j, exc, outfile, parameter_hex_widths, vec_hi_idx,
                   vec_format_str, top, out, vec_bit_slices, inputs, outputs,
                   input_decls, initial_begin_inputs, dut_stimulate_block,
                   output_check_expr, benchvars>>

\* line 270
MainInputDecls ==
    /\ pc = "input_decls"
    /\ IF KeyMissing(parameters, "io_type")
       THEN /\ Raise("KeyError")
            /\ UNCHANGED input_decls
       ELSE /\ input_decls' = codegen_input_decls(parameters)
            /\ pc' = "initial_begin"
            /\ exc' = exc
    /\ UNCHANGED <<j, outfile, parameter_hex_widths, vec_hi_idx,
                   vec_format_str, top, out, vec_bit_slices, inputs, outputs,
                   vec_format_params, initial_begin_inputs,
                   dut_stimulate_block, output_check_expr, benchvars>>

\* line 271: max() of an empty list raises ValueError
MainInitialBegin ==
    /\ pc = "initial_begin"
    /\ IF parameters = <<>>
       THEN /\ Raise("ValueError")
            /\ UNCHANGED initial_begin_inputs
       ELSE IF KeyMissing(parameters, "io_type")
       THEN /\ Raise("KeyError")
            /\ UNCHANGED initial_begin_inputs
       ELSE /\ initial_begin_inputs' = codegen_initial_begin_decls(parameters)
            /\ pc' = "stimulate"
            /\ exc' = exc
    /\ UNCHANGED <<j, outfile, parameter_hex_widths, vec_hi_idx,
                   vec_format_str, top, out, vec_bit_slices, inputs, outputs,
                   vec_format_params, input_decls, dut_stimulate_block,
                   output_check_expr, benchvars>>

\* line 274
MainStimulate ==
    /\ pc = "stimulate"
    /\ IF parameters = <<>>
       THEN /\ Raise("ValueError")
            /\ UNCHANGED dut_stimulate_block
       ELSE IF KeyMissing(parameters, "io_type")
       THEN /\ Raise("KeyError")
            /\ UNCHANGED dut_stimulate_block
       ELSE /\ dut_stimulate_block' =
                   codegen_dut_stimulate_block(parameters, vec_bit_slices)
            /\ pc' = "check_expr"
            /\ exc' = exc
    /\ UNCHANGED <<j, outfile, parameter_hex_widths, vec_hi_idx,
                   vec_format_str, top, out, vec_bit_slices, inputs, outputs,
                   vec_format_params, input_decls, initial_begin_inputs,
                   output_check_expr, benchvars>>

\* line 275
MainCheckExpr ==
    /\ pc = "check_expr"
    /\ IF KeyMissing(parameters, "io_type")
       THEN /\ Raise("KeyError")
            /\ UNCHANGED output_check_expr
       ELSE /\ output_check_expr' = codegen_output_check_expr(parameters)
            /\ pc' = "print"
            /\ exc' = exc
    /\ UNCHANGED <<j, outfile, parameter_hex_widths, vec_hi_idx,
                   vec_format_str, top, out, vec_bit_slices, inputs, outputs,
                   vec_format_params, input_decls, initial_begin_inputs,
                   dut_stimulate_block, benchvars>>

\* The keyword arguments of template_bench.format, lines 265-275.
RenderContext ==
    [module_name            |-> j.module_name,
     vec_format_str         |-> vec_format_str,
     vec_format_params      |-> vec_format_params,
     vec_hi_idx             |-> IntStr(vec_hi_idx),
     vec_lo_idx             |-> IntStr(0),
     input_decls            |-> input_decls,
     initial_begin_inputs   |-> initial_begin_inputs,
     dut_inputs             |->
         JoinNames([k \in 1..NumFields |-> parameters[k].name], ", "),
     enable_stimulate_block |->
         <<Indent12, "enable = current[">> \o IntStr(vec_hi_idx) \o <<":">>
             \o IntStr(vec_hi_idx - 3) \o <<"];", "\n">>,
     dut_stimulate_block    |-> dut_stimulate_block,
     output_check_expr      |-> output_check_expr]

\* lines 264-276: the filled-in template goes to args.outfile
MainPrint ==
    /\ pc = "print"
    /\ outfile' = <<RenderContext>>
    /\ pc' = "done"
    /\ UNCHANGED <<j, exc, parameter_hex_widths, vec_hi_idx, vec_format_str,
                   top, out, vec_bit_slices, inputs, outputs,
                   vec_format_params, input_decls, initial_begin_inputs,
                   dut_stimulate_block, output_check_expr, benchvars>>

Next ==
    \/ MainWidths
    \/ MainVector
    \/ BitSlicesEnter
    \/ BitSlicesStep
    \/ BitSlicesReturn
    \/ MainFilter
    \/ MainFormatParams
    \/ MainInputDecls
    \/ MainInitialBegin
    \/ MainStimulate
    \/ MainCheckExpr
    \/ MainPrint

Spec == Init /\ [][Next]_vars

\* Any document json.loads can return within the bounds: no parameter at all,
\* idx_hi below idx_lo, either direction key missing.
InitAny ==
    /\ j \in UNION { DocumentsOf(n, AllGeometry, KeyStyles) : n \in 0..MaxFields }
    /\ GenInitRest
    /\ BenchIdle

SpecAny == InitAny /\ [][Next]_vars

(***************************************************************************)
(* The emitted test bench: template_bench, lines 50-96.                    *)
(*                                                                         *)
(* Its two initial blocks start in the same time step in an order the      *)
(* simulator chooses.  The second block runs without suspending until its  *)
(* first #10, so the first block runs either before it or while it waits   *)
(* there.  i and error stay below 1001, far from the 32-bit wrap.  The     *)
(* vector file is read lazily: the tag of a slot is chosen when the slot   *)
(* is loaded; slots the file does not fill are all-x.  $stop ends the run. *)
(***************************************************************************)
NumVectors == 1000

\* Enable tags: in use, unknown, not in use, partly unknown.
EnableTags == {"1111", "xxxx", "0000", "1x1x"}

\* The module description of the test bench that is simulated.
AdderDocument ==
    [module_name |-> "adder",
     parameters  |-> <<Param("a", "input", 7, 0, "both"),
                       Param("b", "input", 7, 0, "both"),
                       Param("sum", "output", 8, 0, "both")>>]

\* The test bench is generated from AdderDocument, then simulated.
InitBench ==
    /\ j = AdderDocument
    /\ GenInitRest
    /\ BenchIdle

\* lines 54-58
BenchInitial ==
    /\ pc = "done"
    /\ ~init_done
    /\ bpc \in {"idle", "settle"}
    /\ init_done' = TRUE
    /\ i' = 0
    /\ error' = 0
    /\ UNCHANGED <<genvars, bpc, enable, summary>>

\* lines 63-67: $readmemh and the loop's i = 0
BenchStart ==
    /\ pc = "done"
    /\ bpc = "idle"
    /\ i' = 0
    /\ bpc' = "loop"
    /\ UNCHANGED <<genvars, init_done, error, enable, summary>>

\* lines 67-72: i < 1000, current = vectors[i], enable = current[hi:hi-3]
BenchLoad ==
    /\ bpc = "loop"
    /\ i < NumVectors
    /\ \E tag \in EnableTags : enable' = tag
    /\ bpc' = "check"
    /\ UNCHANGED <<genvars, init_done, i, error, summary>>

\* lines 67, 95: the loop ran out of slots
BenchExit ==
    /\ bpc = "loop"
    /\ ~(i < NumVectors)
    /\ bpc' = "stopped"
    /\ UNCHANGED <<genvars, init_done, i, error, enable, summary>>

\* lines 76-78
BenchCheck ==
    /\ bpc = "check"
    /\ bpc' = IF enable = "1111" THEN "settle" ELSE "end_check"
    /\ UNCHANGED <<genvars, init_done, i, error, enable, summary>>

\* lines 78-87: after the delay, compare the outputs
BenchCompare ==
    /\ bpc = "settle"
    /\ init_done
    /\ \E mismatch \in BOOLEAN :
         /\ mismatch => error < MaxErrors
         /\ error' = IF mismatch THEN error + 1 ELSE error
    /\ bpc' = "end_check"
    /\ UNCHANGED <<genvars, init_done, i, enable, summary>>

\* lines 88-92, and the loop's i = i + 1
BenchEndCheck ==
    /\ bpc = "end_check"
    /\ IF enable = "xxxx"
       THEN /\ summary' = <<[tests |-> i, errors |-> error]>>
            /\ bpc' = "stopped"
            /\ i' = i
       ELSE /\ summary' = summary
            /\ bpc' = "loop"
            /\ i' = i + 1
    /\ UNCHANGED <<genvars, init_done, error, enable>>

NextBench ==
    \/ Next
    \/ BenchInitial
    \/ BenchStart
    \/ BenchLoad
    \/ BenchExit
    \/ BenchCheck
    \/ BenchCompare
    \/ BenchEndCheck

SpecBench == InitBench /\ [][NextBench]_vars

(***************************************************************************)
(* Reading text back: the pieces of a generated fragment are split at a    *)
(* marker piece and the decimal numerals between markers are parsed.       *)
(***************************************************************************)
RECURSIVE FirstIndex(_, _, _)
FirstIndex(s, piece, k) ==
    IF k > Len(s) THEN 0
    ELSE IF s[k] = piece THEN k
    ELSE FirstIndex(s, piece, k + 1)

RECURSIVE SplitOn(_, _)
SplitOn(s, piece) ==
    LET p == FirstIndex(s, piece, 1)
    IN  IF p = 0 THEN <<s>>
        ELSE <<SubSeq(s, 1, p - 1)>> \o SplitOn(SubSeq(s, p + 1, Len(s)), piece)

CountOf(s, pieces) == Cardinality({ k \in 1..Len(s) : s[k] \in pieces })

IsDigit(c) == \E d \in 0..9 : Digit(d) = c

DigitValue(c) == IF IsDigit(c) THEN CHOOSE d \in 0..9 : Digit(d) = c ELSE 0

IsNatNumeral(ds) == Len(ds) >= 1 /\ \A k \in 1..Len(ds) : IsDigit(ds[k])

IsIntNumeral(ds) ==
    /\ Len(ds) >= 1
    /\ IF ds[1] = "-" THEN IsNatNumeral(Tail(ds)) ELSE IsNatNumeral(ds)

RECURSIVE ParseNat(_)
ParseNat(ds) ==
    IF Len(ds) = 0 THEN 0
    ELSE ParseNat(SubSeq(ds, 1, Len(ds) - 1)) * 10 + DigitValue(ds[Len(ds)])

ParseInt(ds) == IF ds[1] = "-" THEN 0 - ParseNat(Tail(ds)) ELSE ParseNat(ds)

\* The text between the first piece `open` and the next piece `close` of s,
\* as a number; fails when either is missing or the text is no numeral.
HasNumberBetween(s, from, close) ==
    LET c == FirstIndex(s, close, from)
    IN  c > from /\ IsIntNumeral(SubSeq(s, from, c - 1))

NumberBetween(s, from, close) ==
    ParseInt(SubSeq(s, from, FirstIndex(s, close, from) - 1))

StripSpaces(s) == SelectSeq(s, LAMBDA c : c # " ")

(***************************************************************************)
(* The layout as the specification states it (sections 3 and 4.2).         *)
(***************************************************************************)
\* raw_width
RawWidth(k) == parameters[k].idx_hi - parameters[k].idx_lo + 1

\* A valid module: at least one field, bit_hi >= bit_lo >= 0 for each.
ValidModule ==
    /\ NumFields >= 1
    /\ \A k \in 1..NumFields :
         /\ parameters[k].idx_hi >= parameters[k].idx_lo
         /\ parameters[k].idx_lo >= 0

\* nibble_width = ceil(raw_width / 4): the least digit count that holds w bits
NibbleWidth(w) == CHOOSE h \in 0..w : 4 * (h - 1) < w /\ w <= 4 * h

RECURSIVE SumOver(_, _, _)
SumOver(F(_), from, to) ==
    IF from > to THEN 0 ELSE F(from) + SumOver(F, from + 1, to)

\* chunk_bits of field k, from the hex widths the program computed
ChunkBits(k) == parameter_hex_widths[k] * 4

\* chunk_bits of field k, from the field's geometry alone
SpecChunkBits(k) == 4 * NibbleWidth(RawWidth(k))

\* The bit at which the chunk of field k starts.
SpecChunkBottom(k) == SumOver(SpecChunkBits, k + 1, NumFields)

\* total_width
TotalWidth == vec_hi_idx + 1

\* top and out hold the state of generate_bit_slice_indices
InLayout == pc \notin {"start", "vector", "slices_enter"}

\* The layout that packs the fields at their raw widths and aligns the whole
\* vector once: the cursor starts at the raw total rounded up to a nibble and
\* drops by each field's raw width.
WholeVectorSlices ==
    LET total == 4 * NibbleWidth(SumOver(RawWidth, 1, NumFields))
    IN  [k \in 1..NumFields |->
           LET lo == total - SumOver(RawWidth, 1, k)
           IN  <<lo + RawWidth(k) - 1, lo>>]

(***************************************************************************)
(* Claims                                                                  *)
(***************************************************************************)

\* C1: for a valid module the chunks of hex_width*4 bits tile
\* [0, total_width-4) without gap or overlap, first-declared field highest:
\* after each field the cursor top is the sum of the chunks of the fields not
\* yet processed, each chunk ends where the one before it starts, and the
\* loop ends with top = 0 and the last chunk starting at bit 0.
ChunksTileVector ==
    (ValidModule /\ InLayout) =>
        /\ top = SumOver(ChunkBits, Len(out) + 1, NumFields)
        /\ \A k \in 1..Len(out) :
             /\ ChunkBits(k) > 0
             /\ out[k][2] + ChunkBits(k) =
                    (IF k = 1 THEN TotalWidth - 4 ELSE out[k - 1][2])
        /\ (Len(out) = NumFields) =>
               (top = 0 /\ out[NumFields][2] = 0)

\* C1 witness: the adder scenario after the loop has ended.
ChunksTileVectorWitness ==
    /\ j = AdderDocument
    /\ pc = "filter"
    /\ top = 0
    /\ vec_bit_slices = <<<<27, 20>>, <<19, 12>>, <<8, 0>>>>

\* C2: for a valid module every slice has slice_hi >= slice_lo >= 0 and
\* slice_hi < total_width - 4, with total_width = vec_hi_idx + 1 = 4 + the sum
\* of the chunk bits: no data slice reaches the enable slice.
SlicesBelowEnable ==
    (ValidModule /\ InLayout) =>
        /\ TotalWidth = 4 + SumOver(SpecChunkBits, 1, NumFields)
        /\ \A k \in 1..Len(out) :
             /\ out[k][1] >= out[k][2]
             /\ out[k][2] >= 0
             /\ out[k][1] < TotalWidth - 4
             /\ out[k][1] < vec_hi_idx - 3

\* C2 witness: output was printed for a module whose first field fills its
\* chunk, so its slice_hi is the bit just below the enable slice.
SlicesBelowEnableWitness ==
    /\ pc = "done"
    /\ NumFields >= 2
    /\ RawWidth(1) % 4 = 0
    /\ vec_bit_slices[1][1] = vec_hi_idx - 4

\* C3: each field is nibble-aligned on its own: its hex width h is the least
\* with 4*(h-1) < raw_width <= 4*h, its slice starts at the bottom of its
\* chunk and spans raw_width bits, the 4*h - raw_width padding bits (0..3) lie
\* above it in the chunk, and the slices differ from those of aligning the
\* whole vector once whenever a field other than the last has a raw width
\* that is no multiple of 4.
PerFieldNibbleAlignment ==
    (ValidModule /\ InLayout) =>
        /\ \A k \in 1..NumFields :
             /\ 4 * (parameter_hex_widths[k] - 1) < RawWidth(k)
             /\ RawWidth(k) <= 4 * parameter_hex_widths[k]
        /\ \A k \in 1..Len(out) :
             LET padding == (out[k][2] + ChunkBits(k) - 1) - out[k][1]
             IN  /\ out[k][2] = SpecChunkBottom(k)
                 /\ out[k][1] - out[k][2] + 1 = RawWidth(k)
                 /\ padding = 4 * parameter_hex_widths[k] - RawWidth(k)
                 /\ padding \in 0..3
        /\ ( /\ Len(out) = NumFields
             /\ \E k \in 1..(NumFields - 1) : RawWidth(k) % 4 # 0 )
           => out # WholeVectorSlices

\* C3 witness: the loop has ended for a module whose first field leaves
\* padding and whose last field does not.
PerFieldNibbleAlignmentWitness ==
    /\ pc = "filter"
    /\ NumFields = 2
    /\ RawWidth(1) % 4 = 3
    /\ RawWidth(2) % 4 = 0
    /\ out[1][2] + ChunkBits(1) - 1 = out[1][1] + 1
    /\ out # WholeVectorSlices

OutputFieldNames ==
    LET outs == SelectSeq(parameters, LAMBDA v : v["io_type"] = "output")
    IN  [k \in 1..Len(outs) |-> outs[k].name]

\* C4: with at least one output field the mismatch expression is one term
\* `name != name_e` per output field, in declaration order, separated by
\* single ` || ` pieces: splitting it at the separators gives exactly the
\* terms of the output fields and no empty operand.
CheckExprWellFormed ==
    (pc \in {"print", "done"} /\ OutputFieldNames # <<>>) =>
        LET terms == SplitOn(output_check_expr, " || ")
        IN  /\ Len(terms) = Len(OutputFieldNames)
            /\ \A k \in 1..Len(terms) :
                 terms[k] = <<OutputFieldNames[k], " != ",
                              OutputFieldNames[k], "_e">>

InvalidGeometry ==
    \/ NumFields = 0
    \/ \E k \in 1..NumFields : parameters[k].idx_hi < parameters[k].idx_lo

\* C5: a field with idx_hi < idx_lo, or an empty field list, ends the run in
\* an error with nothing printed, and no printed slice has slice_hi < slice_lo.
InvalidGeometryRejected ==
    /\ InvalidGeometry => (pc # "done" /\ outfile = <<>>)
    /\ outfile # <<>> =>
           \A k \in 1..Len(vec_bit_slices) :
               vec_bit_slices[k][1] >= vec_bit_slices[k][2]

SchemaConforming ==
    /\ ValidModule
    /\ \A k \in 1..NumFields :
         /\ DOMAIN parameters[k] = {"name", "type", "idx_hi", "idx_lo"}
         /\ parameters[k]["type"] \in Directions

\* C6: a document that conforms to the input schema (parameters not empty,
\* each with exactly the keys name, type, idx_hi, idx_lo, type a direction,
\* idx_hi >= idx_lo >= 0) never reaches an error state.
SchemaConformingNeverFails ==
    SchemaConforming => (pc # "error" /\ exc = "none")

\* C7: the format string holds len(fields) + 1 conversion specifiers: `%1h`
\* first, then for the k-th field `_%0Wh` with W the decimal numeral of that
\* field's hex width.
FormatStringMatchesFields ==
    (ValidModule /\ pc \notin {"start", "vector"}) =>
        LET groups == SplitOn(vec_format_str, "_%0")
        IN  /\ CountOf(vec_format_str, {"%1h", "_%0"}) = NumFields + 1
            /\ Len(groups) = NumFields + 1
            /\ groups[1] = <<"%1h">>
            /\ \A k \in 1..NumFields :
                 LET g == groups[k + 1]
                 IN  /\ Len(g) >= 2
                     /\ g[Len(g)] = "h"
                     /\ IsNatNumeral(SubSeq(g, 1, Len(g) - 1))
                     /\ ParseNat(SubSeq(g, 1, Len(g) - 1)) =
                            NibbleWidth(RawWidth(k))

\* C7 witness: the adder scenario's format string "%1h_%02h_%02h_%03h".
FormatStringMatchesFieldsWitness ==
    /\ j = AdderDocument
    /\ pc = "slices_enter"
    /\ vec_format_str = <<"%1h", "_%0", "2", "h", "_%0", "2", "h",
                          "_%0", "3", "h">>

\* C8: whenever the test bench's loop has ended, it ended at a slot whose
\* enable tag is all-unknown and the summary of vectors run and errors has
\* been printed.
BenchStopsWithSummary ==
    (bpc = "stopped") => (enable = "xxxx" /\ summary # <<>>)

\* C9: the stimulate block is one line per field, in declaration order; the
\* k-th line assigns current[slice_hi:slice_lo] of the k-th field's layout
\* slice to `name` for an input and to `name_e` for an output.
StimulateAssignsEachField ==
    (ValidModule /\ pc \in {"check_expr", "print", "done"}) =>
        LET lines == SplitOn(dut_stimulate_block, "\n")
        IN  /\ Len(lines) = NumFields + 1
            /\ lines[NumFields + 1] = <<>>
            /\ CountOf(dut_stimulate_block, {" = current["}) = NumFields
            /\ \A k \in 1..NumFields :
                 LET ln == lines[k]
                     v  == parameters[k]
                     p  == FirstIndex(ln, " = current[", 1)
                     c  == FirstIndex(ln, ":", 1)
                 IN  /\ p > 1
                     /\ ln[1] = Indent12
                     /\ StripSpaces(SubSeq(ln, 2, p - 1)) =
                            (IF v["io_type"] = "input" THEN <<v.name>>
                             ELSE <<v.name, "_e">>)
                     /\ HasNumberBetween(ln, p + 1, ":")
                     /\ HasNumberBetween(ln, c + 1, "];")
                     /\ FirstIndex(ln, "];", 1) = Len(ln)
                     /\ NumberBetween(ln, p + 1, ":") = vec_bit_slices[k][1]
                     /\ NumberBetween(ln, c + 1, "];") = vec_bit_slices[k][2]
                     /\ vec_bit_slices[k] =
                            <<SpecChunkBottom(k) + RawWidth(k) - 1,
                              SpecChunkBottom(k)>>

\* C9 witness: the block was made for an output declared before an input and
\* another output after it.
StimulateAssignsEachFieldWitness ==
    /\ pc = "check_expr"
    /\ NumFields = 3
    /\ parameters[1]["io_type"] = "output"
    /\ parameters[2]["io_type"] = "input"
    /\ parameters[3]["io_type"] = "output"
    /\ CountOf(dut_stimulate_block, {"_e"}) = 2

SpecifierWidth(groups, k) ==
    IF k = 1 THEN (IF groups[1] = <<"%1h">> THEN 1 ELSE 0)
    ELSE ParseNat(SubSeq(groups[k], 1, Len(groups[k]) - 1))

\* C10: the display function gets one `vec[hi:lo]` argument per conversion
\* specifier: the enable slice [vec_hi_idx : vec_hi_idx-3] first, then the
\* slice of each field in declaration order, and the bit width of the k-th
\* argument is at most 4 times the k-th specifier's digit width and more than
\* 4 times that width less one.
FormatParamsMatchSpecifiers ==
    (ValidModule /\ pc \in {"input_decls", "initial_begin", "stimulate",
                            "check_expr", "print", "done"}) =>
        LET args   == SplitOn(vec_format_params, "vec[")
            groups == SplitOn(vec_format_str, "_%0")
        IN  /\ Len(groups) = NumFields + 1
            /\ Len(args) - 1 = Len(groups)
            /\ \A k \in 1..(NumFields + 1) :
                 LET a  == args[k + 1]
                     c  == FirstIndex(a, ":", 1)
                     hi == NumberBetween(a, 1, ":")
                     lo == NumberBetween(a, c + 1, "]")
                     w  == SpecifierWidth(groups, k)
                 IN  /\ HasNumberBetween(a, 1, ":")
                     /\ HasNumberBetween(a, c + 1, "]")
                     /\ <<hi, lo>> = (IF k = 1
                                      THEN <<vec_hi_idx, vec_hi_idx - 3>>
                                      ELSE vec_bit_slices[k - 1])
                     /\ (k > 1) => (hi - lo + 1 = RawWidth(k - 1))
                     /\ hi - lo + 1 <= 4 * w
                     /\ hi - lo + 1 > 4 * (w - 1)

\* C10 witness: the arguments of a three-field module whose fields have three
\* different digit widths were generated.
FormatParamsMatchSpecifiersWitness ==
    /\ pc = "input_decls"
    /\ NumFields = 3
    /\ parameter_hex_widths = <<3, 1, 2>>
    /\ CountOf(vec_format_params, {"vec["}) = 4
    /\ CountOf(vec_format_params, {","}) = 3

====
